---- MODULE Spec2Model ----
(***************************************************************************)
(* goodgame: the game registry (src/src/games.rs) and the backup/restore   *)
(* engine (src/src/main.rs).                                               *)
(*                                                                         *)
(* Strings are sequences of one-character strings, so that comparison,     *)
(* splitting, trimming and extension replacement are computed character by *)
(* character as the Rust standard library computes them.  Option<T> is a   *)
(* sequence of length at most one: None is <<>>, Some(v) is <<v>>.         *)
(***************************************************************************)
EXTENDS Integers, Sequences, FiniteSets, TLC

VARIABLES inner, last, saves, save, ghost, trace, proc, games_file

vars == <<inner, last, saves, save, ghost, trace, proc, games_file>>

(* ------------------------------ bounds --------------------------------- *)

\* Largest number of records the registry is let to hold.
MaxGames == 2

\* Largest number of entries root/gg-saves is let to hold.
MaxBackups == 2

(* ------------------------------ strings -------------------------------- *)

None == <<>>

Some(v) == <<v>>

\* Byte value of a character (ASCII), the order str::cmp compares by.
Code(c) ==
  CASE c = "-" -> 45
    [] c = "." -> 46
    [] c = "0" -> 48
    [] c = "1" -> 49
    [] c = "2" -> 50
    [] c = "3" -> 51
    [] c = "4" -> 52
    [] c = "5" -> 53
    [] c = "6" -> 54
    [] c = "7" -> 55
    [] c = "8" -> 56
    [] c = "9" -> 57
    [] c = "a" -> 97
    [] c = "b" -> 98
    [] c = "c" -> 99
    [] c = "d" -> 100
    [] OTHER -> 122

RECURSIVE StrCmp(_, _)
\* <str as Ord>::cmp: bytewise lexicographic, a proper prefix is Less.
StrCmp(a, b) ==
  IF a = <<>> /\ b = <<>> THEN "Equal"
  ELSE IF a = <<>> THEN "Less"
  ELSE IF b = <<>> THEN "Greater"
  ELSE IF Code(Head(a)) < Code(Head(b)) THEN "Less"
  ELSE IF Code(Head(a)) > Code(Head(b)) THEN "Greater"
  ELSE StrCmp(Tail(a), Tail(b))

(* ------------------------------- Game ---------------------------------- *)

\* Game names the registry operations are exercised with.
Names == { <<"a">>, <<"a", "b">>, <<"b">> }

\* Canonical absolute paths, used for root and for save_location.
Paths == { "p1", "p2" }

Executables == { None, Some("exe") }

RunCommands == { None, Some(<< <<"$", "R", "U", "N">> >>) }

\* struct Game
Game == [name : Names, root : Paths, save_location : Paths,
         executable : Executables, run_commands : RunCommands]

\* impl Ord for Game: by name only.
GameCmp(g, h) == StrCmp(g.name, h.name)

\* impl PartialEq for Game: same name OR same root OR same save_location.
GameEq(g, h) ==
  \/ g.name = h.name
  \/ g.root = h.root
  \/ g.save_location = h.save_location

MergeAlwaysOverwrite(self, game) ==
  [self EXCEPT !.root = game.root,
               !.save_location = game.save_location,
               !.executable = game.executable,
               !.run_commands = game.run_commands]

\* Game::merge
merge(self, game) ==
  [self EXCEPT !.root = game.root,
               !.save_location = game.save_location,
               !.executable = IF game.executable # None
                              THEN game.executable ELSE @,
               !.run_commands = IF game.run_commands # None
                                THEN game.run_commands ELSE @]

(* --------------------------- binary search ----------------------------- *)

RECURSIVE BsLoop(_, _, _, _)
\* The loop of slice::binary_search_by; cmpAt[i] is f(&self[i]).
BsLoop(cmpAt, base, size, dummy) ==
  IF size > 1
  THEN LET half == size \div 2
           mid == base + half
       IN BsLoop(cmpAt, IF cmpAt[mid] = "Greater" THEN base ELSE mid,
                 size - half, dummy)
  ELSE base

\* slice::binary_search_by over a 1-based sequence: [ok |-> TRUE, i |-> k]
\* is Ok(k-1), [ok |-> FALSE, i |-> k] is Err(k-1).
BinarySearchBy(cmpAt) ==
  IF Len(cmpAt) = 0 THEN [ok |-> FALSE, i |-> 1]
  ELSE LET base == BsLoop(cmpAt, 1, Len(cmpAt), 0)
           c == cmpAt[base]
       IN IF c = "Equal" THEN [ok |-> TRUE, i |-> base]
          ELSE [ok |-> FALSE, i |-> base + (IF c = "Less" THEN 1 ELSE 0)]

\* self.inner.binary_search(&game): compares with Ord::cmp.
SearchGame(reg, game) ==
  BinarySearchBy([i \in 1..Len(reg) |-> GameCmp(reg[i], game)])

\* self.inner.binary_search_by(|g| g.name.as_str().cmp(name))
SearchName(reg, name) ==
  BinarySearchBy([i \in 1..Len(reg) |-> StrCmp(reg[i].name, name)])

\* Vec::insert at 1-based position i.
Insert(s, i, x) == SubSeq(s, 1, i - 1) \o <<x>> \o SubSeq(s, i, Len(s))

\* Vec::remove at 1-based position i.
Remove(s, i) == SubSeq(s, 1, i - 1) \o SubSeq(s, i + 1, Len(s))

(* ------------------------------ Games ---------------------------------- *)

PushAppend(reg, game) ==
  LET r == SearchGame(reg, game)
  IN IF r.ok THEN [reg EXCEPT ![r.i] = merge(@, game)]
     ELSE Append(reg, game)

PushInsertAlways(reg, game) ==
  LET r == SearchGame(reg, game)
  IN Insert(reg, r.i, game)

\* Games::push
push(reg, game) ==
  LET r == SearchGame(reg, game)
  IN IF r.ok THEN [reg EXCEPT ![r.i] = merge(@, game)]
     ELSE Insert(reg, r.i, game)

DeletePop(reg, name) ==
  LET r == SearchName(reg, name)
  IN IF r.ok THEN Remove(reg, Len(reg)) ELSE reg

\* Games::delete: the registry after the call.
delete(reg, name) ==
  LET r == SearchName(reg, name)
  IN IF r.ok THEN Remove(reg, r.i) ELSE reg

\* Games::delete: the returned Option<Game>.
deleted(reg, name) ==
  LET r == SearchName(reg, name)
  IN IF r.ok THEN Some(reg[r.i]) ELSE None

\* Games::get_by_name: Some(record) for Ok, None for the "does not exist" error.
get_by_name(reg, name) ==
  LET r == SearchName(reg, name)
  IN IF r.ok THEN Some(reg[r.i]) ELSE None

(* ---------------------- registry specification ------------------------- *)

NoGame == [name |-> <<>>, root |-> "", save_location |-> "",
           executable |-> None, run_commands |-> None]

\* The working directory a gg process is started in and the one it has when
\* its command returns.
Proc(start, cwd) == [start |-> start, cwd |-> cwd]

\* The games file: its bytes and the cursor of the open handle.
NoFile == [bytes |-> <<>>, pos |-> 0]

\* Games { inner: Vec::new(), .. }: the registry loaded from an empty file.
Init ==
  /\ inner = <<>>
  /\ last = [kind |-> "load", game |-> NoGame, found |-> FALSE, idx |-> 0]
  /\ saves = <<>>
  /\ save = {}
  /\ ghost = <<>>
  /\ trace = <<>>
  /\ proc = Proc("/", "/")
  /\ games_file = NoFile

\* A call games.push(game) with an arbitrary record.
Push ==
  \E game \in Game :
    LET r == SearchGame(inner, game)
    IN /\ r.ok \/ Len(inner) < MaxGames
       /\ inner' = push(inner, game)
       /\ last' = [kind |-> "push", game |-> game, found |-> r.ok, idx |-> r.i]
       /\ UNCHANGED <<saves, save, ghost, trace, proc, games_file>>

\* A call games.delete(name).
Delete ==
  \E name \in Names :
    LET r == SearchName(inner, name)
    IN /\ inner' = delete(inner, name)
       /\ last' = [kind |-> "delete", game |-> [NoGame EXCEPT !.name = name],
                   found |-> r.ok, idx |-> r.i]
       /\ UNCHANGED <<saves, save, ghost, trace, proc, games_file>>

Next == Push \/ Delete

Spec == Init /\ [][Next]_vars

(* ------------------------ strings of main.rs --------------------------- *)

RECURSIVE Decimal(_)
\* Display for usize: the decimal digits of n.
Decimal(n) ==
  LET d == <<"0", "1", "2", "3", "4", "5", "6", "7", "8", "9">>[(n % 10) + 1]
  IN IF n < 10 THEN <<d>> ELSE Decimal(n \div 10) \o <<d>>

RECURSIVE PadLeft(_, _)
\* The fill of "{:0>w}": '0' on the left up to width w, never truncating.
PadLeft(s, w) == IF Len(s) >= w THEN s ELSE PadLeft(<<"0">> \o s, w)

\* format!("{idx:0>3}")
Idx3(idx) == PadLeft(Decimal(idx), 3)

IsAsciiDigit(c) == Code(c) >= 48 /\ Code(c) <= 57

RECURSIVE IndexOf(_, _, _)
\* Position of the first c in s at or after position i, 0 when there is none.
IndexOf(s, c, i) ==
  IF i > Len(s) THEN 0
  ELSE IF s[i] = c THEN i
  ELSE IndexOf(s, c, i + 1)

RECURSIVE LastIndexOf(_, _, _)
\* Position of the last c in s at or before position i, 0 when there is none.
LastIndexOf(s, c, i) ==
  IF i < 1 THEN 0
  ELSE IF s[i] = c THEN i
  ELSE LastIndexOf(s, c, i - 1)

\* target.split("-").nth(1): None when the string has no '-'.
SplitNth1(s) ==
  LET i == IndexOf(s, "-", 1)
  IN IF i = 0 THEN None
     ELSE LET rest == SubSeq(s, i + 1, Len(s))
              j == IndexOf(rest, "-", 1)
          IN Some(IF j = 0 THEN rest ELSE SubSeq(rest, 1, j - 1))

RECURSIVE TrimEndNonDigits(_)
\* str::trim_end_matches(|c: char| !c.is_ascii_digit())
TrimEndNonDigits(s) ==
  IF s = <<>> THEN s
  ELSE IF IsAsciiDigit(s[Len(s)]) THEN s
  ELSE TrimEndNonDigits(SubSeq(s, 1, Len(s) - 1))

\* Path::file_stem of a one-component path (rsplit_file_at_dot): the part
\* before the last '.', the whole name when it has no '.' or only a leading one.
FileStem(file) ==
  LET i == LastIndexOf(file, ".", Len(file))
  IN IF file = <<".", ".">> THEN file
     ELSE IF i = 0 THEN file
     ELSE IF i = 1 THEN file
     ELSE SubSeq(file, 1, i - 1)

TarZst == <<"t", "a", "r", ".", "z", "s", "t">>

\* Path::with_extension on the last component: the extension after the last
\* '.' is replaced, or the new one is appended when there is none.
WithExtension(file, ext) == FileStem(file) \o <<".">> \o ext

\* The name backup() gives the archive: format!("{name}-{idx:0>3}{desc}")
\* then with_extension("tar.zst").
ArchiveName(name, idx, desc) ==
  LET d == IF desc # None THEN <<"-">> \o desc[1] ELSE <<>>
  IN WithExtension(name \o <<"-">> \o Idx3(idx) \o d, TarZst)

ReplacedWith == <<"r", "e", "p", "l", "a", "c", "e", "d", "-",
                  "w", "i", "t", "h", "-">>

\* restore(): target.split("-").nth(1).unwrap().trim_end_matches(..); None
\* stands for the panic of unwrap() on a target without '-'.
TargetIdx(target) ==
  LET p == SplitNth1(target)
  IN IF p = None THEN None ELSE Some(TrimEndNonDigits(p[1]))

(* --------------------- save data and tar archives ---------------------- *)

\* A node of the tree below save_location: a relative path (its components),
\* whether it is a directory, and the bytes of a file.
DirNode(p) == [path |-> p, kind |-> "dir", data |-> ""]

FileNode(p, d) == [path |-> p, kind |-> "file", data |-> d]

\* Directory trees the game is let to leave at save_location.
SampleTrees ==
  { {},
    { FileNode(<<"f">>, "y"), DirNode(<<"d">>), FileNode(<<"d", "g">>, "x"),
      DirNode(<<"e">>) } }

\* Contents of a save_location that is a single regular file.
SampleFileData == { "x", "y" }

\* Base name of a save_location that is a regular file.
SaveFileName == <<"s">>

RECURSIVE SetToSeq(_)
\* fs::read_dir: the entries of a directory, in an order the OS picks.
SetToSeq(S) ==
  IF S = {} THEN <<>>
  ELSE LET x == CHOOSE y \in S : TRUE IN <<x>> \o SetToSeq(S \ {x})

Children(nodes, p) ==
  { n \in nodes : Len(n.path) = Len(p) + 1 /\ SubSeq(n.path, 1, Len(p)) = p }

RECURSIVE Walk(_, _)
\* The stack loop of tar::Builder::append_dir_all("", src): a directory pushes
\* its children and is appended itself unless it is the root; a file is
\* appended under its path relative to src.
Walk(stack, nodes) ==
  IF stack = <<>> THEN <<>>
  ELSE LET top == stack[Len(stack)]
           rest == SubSeq(stack, 1, Len(stack) - 1)
       IN IF top.kind = "dir"
          THEN (IF top.path = <<>> THEN <<>> ELSE <<top>>)
               \o Walk(rest \o SetToSeq(Children(nodes, top.path)), nodes)
          ELSE <<top>> \o Walk(rest, nodes)

TarEntriesFlat(sav) ==
  IF sav.kind = "dir"
  THEN LET w == Walk(<<DirNode(<<>>)>>, sav.nodes)
       IN [i \in 1..Len(w) |-> [w[i] EXCEPT !.path = <<@[Len(@)]>>]]
  ELSE <<FileNode(SaveFileName, sav.data)>>

\* The entries backup() appends: append_dir_all("", save_location) for a
\* directory, append_file(file_name, ..) for a regular file.
TarEntries(sav) ==
  IF sav.kind = "dir"
  THEN Walk(<<DirNode(<<>>)>>, sav.nodes)
  ELSE <<FileNode(SaveFileName, sav.data)>>

Parents(nodes, p) ==
  { DirNode(SubSeq(p, 1, k)) : k \in 1..(Len(p) - 1) }

\* Entry::unpack_in for a file: missing parent directories are created and
\* the file replaces whatever file is at its path.
UnpackFile(nodes, e) ==
  LET kept == { n \in nodes : n.path # e.path }
      missing == { d \in Parents(nodes, e.path) :
                     ~ \E n \in nodes : n.path = d.path }
  IN kept \cup {e} \cup missing

\* Entry::unpack_in for a directory: created unless it is already there.
UnpackDir(nodes, e) ==
  IF \E n \in nodes : n.path = e.path THEN nodes
  ELSE nodes \cup {e}
       \cup { d \in Parents(nodes, e.path) :
                ~ \E n \in nodes : n.path = d.path }

RECURSIVE UnpackAll(_, _, _)
\* The loop of tar::Archive::unpack: files are unpacked as they come,
\* directory entries are delayed to the end.
UnpackAll(entries, nodes, dirs) ==
  IF entries = <<>>
  THEN IF dirs = <<>> THEN nodes
       ELSE UnpackAll(<<>>, UnpackDir(nodes, Head(dirs)), Tail(dirs))
  ELSE IF Head(entries).kind = "dir"
       THEN UnpackAll(Tail(entries), nodes, Append(dirs, Head(entries)))
       ELSE UnpackAll(Tail(entries), UnpackFile(nodes, Head(entries)), dirs)

\* tar::Archive::unpack(save_location): [ok, save].  A destination that is a
\* regular file can hold no entry: creating the entry's parent fails.
Unpack(entries, sav) ==
  IF sav.kind = "dir"
  THEN [ok |-> TRUE, save |-> [sav EXCEPT !.nodes = UnpackAll(entries, @, <<>>)]]
  ELSE IF entries = <<>> THEN [ok |-> TRUE, save |-> sav]
  ELSE [ok |-> FALSE, save |-> sav]

(* ------------------------------ hooks ---------------------------------- *)

\* What the process was started with: skip_cloud, and for each of the cloud
\* commit and cloud push command lists of the configuration whether it is
\* empty ("unset") or how the shell command built from it exits.
HookInputs ==
  { [skip |-> TRUE, commit |-> "ok", push |-> "ok"],
    [skip |-> FALSE, commit |-> "unset", push |-> "unset"],
    [skip |-> FALSE, commit |-> "unset", push |-> "ok"],
    [skip |-> FALSE, commit |-> "ok", push |-> "ok"],
    [skip |-> FALSE, commit |-> "ok", push |-> "fail"],
    [skip |-> FALSE, commit |-> "fail", push |-> "ok"] }

Event(e, a, o) == [arg |-> a, ev |-> e, ok |-> o]

\* run_command(cmd, desc, cwd) called by a process whose working directory
\* is cur: [ok, trace, dir], dir the working directory when it returns.  No
\* command is a success that runs nothing; bail!() on a non-success exit
\* comes before set_current_dir(original_dir).
run_command(outcome, desc, cur, cwd) ==
  IF outcome = "unset" THEN [ok |-> TRUE, trace |-> <<>>, dir |-> cur]
  ELSE [ok |-> outcome = "ok",
        trace |-> <<Event("hook", <<desc>>, outcome = "ok")>>,
        dir |-> IF outcome = "ok" THEN cur ELSE cwd]

CloudHooksPushFirst(h, cur, root) ==
  IF h.skip THEN [result |-> "ok", trace |-> <<>>, dir |-> cur]
  ELSE LET p == run_command(h.push, "cloud push", cur, root)
           c == run_command(h.commit, "cloud commit", p.dir, root)
       IN IF ~p.ok
          THEN [result |-> "err:cloud push", trace |-> p.trace, dir |-> p.dir]
          ELSE IF ~c.ok
               THEN [result |-> "err:cloud commit",
                     trace |-> p.trace \o c.trace, dir |-> c.dir]
               ELSE [result |-> "ok", trace |-> p.trace \o c.trace,
                     dir |-> c.dir]

\* if !skip_cloud { run_command(cloud commit)?; run_command(cloud push)?; }
CloudHooks(h, cur, root) ==
  IF h.skip THEN [result |-> "ok", trace |-> <<>>, dir |-> cur]
  ELSE LET c == run_command(h.commit, "cloud commit", cur, root)
           p == run_command(h.push, "cloud push", c.dir, root)
       IN IF ~c.ok
          THEN [result |-> "err:cloud commit", trace |-> c.trace, dir |-> c.dir]
          ELSE IF ~p.ok
               THEN [result |-> "err:cloud push",
                     trace |-> c.trace \o p.trace, dir |-> p.dir]
               ELSE [result |-> "ok", trace |-> c.trace \o p.trace,
                     dir |-> p.dir]

(* ------------------------- backup and restore -------------------------- *)

\* Games::get_by_current_dir
get_by_current_dir(reg, cwd) ==
  LET hits == { i \in 1..Len(reg) :
                  reg[i].root = cwd \/ reg[i].save_location = cwd }
  IN IF hits = {} THEN None
     ELSE Some(reg[CHOOSE i \in hits : \A j \in hits : i <= j])

TryGetFallback(reg, game, cwd) ==
  IF game # None /\ get_by_name(reg, game[1]) # None
  THEN get_by_name(reg, game[1])
  ELSE get_by_current_dir(reg, cwd)

\* Games::try_get
try_get(reg, game, cwd) ==
  IF game # None THEN get_by_name(reg, game[1])
  ELSE get_by_current_dir(reg, cwd)

\* File::create and the write of an archive: the directory afterwards.
WriteFile(dir, f, content) ==
  [n \in (DOMAIN dir) \cup {f} |-> IF n = f THEN content ELSE dir[n]]

\* backup(game, desc, skip_cloud, games): the gg-saves directory, the record
\* of what each archive was made from, the effects in order and the result.
backup(reg, dir, gh, sav, game, cwd, desc, h) ==
  LET g == try_get(reg, game, cwd)
  IN IF g = None
     THEN [saves |-> dir, ghost |-> gh, trace |-> <<>>,
           result |-> "err:resolve", dir |-> cwd]
     ELSE LET idx == Cardinality(DOMAIN dir)
              f == ArchiveName(g[1].name, idx, desc)
              tar == TarEntries(sav)
              hooks == CloudHooks(h, cwd, g[1].root)
          IN [saves |-> WriteFile(dir, f, tar),
              ghost |-> WriteFile(gh, f, sav),
              trace |-> << Event("create", f, f \notin DOMAIN dir),
                           Event("finish", f, TRUE) >> \o hooks.trace,
              result |-> hooks.result,
              dir |-> hooks.dir]

\* restore(game, target, skip_cloud, games): as backup, with save_location
\* afterwards.  try_exists() yields Ok(false) for a missing target, which the
\* `?` lets through; unwrap() panics on a target without '-'.  The cloud
\* hooks run twice, inside the backup of the current saves (h) and after the
\* extraction (h2).
restore(reg, dir, gh, sav, game, target, cwd, h, h2) ==
  LET g == get_by_name(reg, game)
      same == [saves |-> dir, ghost |-> gh, save |-> sav, dir |-> cwd]
  IN IF g = None
     THEN same @@ [trace |-> <<>>, result |-> "err:resolve"]
     ELSE LET ti == TargetIdx(target)
          IN IF ti = None
             THEN same @@ [trace |-> <<>>, result |-> "panic"]
             ELSE LET b == backup(reg, dir, gh, sav, Some(g[1].name), cwd,
                                  Some(ReplacedWith \o ti[1]), h)
                      snap == [saves |-> b.saves, ghost |-> b.ghost,
                               save |-> sav, dir |-> b.dir]
                  IN IF b.result # "ok"
                     THEN snap @@ [trace |-> b.trace, result |-> b.result]
                     ELSE IF target \notin DOMAIN b.saves
                     THEN snap @@ [trace |-> b.trace, result |-> "err:open"]
                     ELSE LET u == Unpack(b.saves[target], sav)
                              hooks == CloudHooks(h2, b.dir, g[1].root)
                          IN IF ~u.ok
                             THEN snap @@ [trace |-> b.trace,
                                           result |-> "err:unpack"]
                             ELSE [saves |-> b.saves, ghost |-> b.ghost,
                                   save |-> u.save,
                                   trace |-> b.trace
                                     \o <<Event("unpack", target, TRUE)>>
                                     \o hooks.trace,
                                   result |-> hooks.result,
                                   dir |-> hooks.dir]

RunSkipsBackup(reg, dir, gh, sav, game, cwd, outcome, h) ==
  LET g == try_get(reg, game, cwd)
  IN IF g = None
     THEN [saves |-> dir, ghost |-> gh, trace |-> <<>>,
           result |-> "err:resolve", dir |-> cwd]
     ELSE LET r == run_command(outcome, "run game", cwd, g[1].root)
          IN IF ~r.ok
             THEN [saves |-> dir, ghost |-> gh, trace |-> r.trace,
                   result |-> "err:run game", dir |-> r.dir]
             ELSE IF h.skip
             THEN [saves |-> dir, ghost |-> gh, trace |-> r.trace,
                   result |-> "ok", dir |-> r.dir]
             ELSE LET b == backup(reg, dir, gh, sav, Some(g[1].name), r.dir,
                                  None, h)
                  IN [b EXCEPT !.trace = r.trace \o b.trace]

\* run(game, skip_cloud, games): the run command in the game's root, then a
\* backup without description under the game's name.
run(reg, dir, gh, sav, game, cwd, outcome, h) ==
  LET g == try_get(reg, game, cwd)
  IN IF g = None
     THEN [saves |-> dir, ghost |-> gh, trace |-> <<>>,
           result |-> "err:resolve", dir |-> cwd]
     ELSE LET r == run_command(outcome, "run game", cwd, g[1].root)
          IN IF ~r.ok
             THEN [saves |-> dir, ghost |-> gh, trace |-> r.trace,
                   result |-> "err:run game", dir |-> r.dir]
             ELSE LET b == backup(reg, dir, gh, sav, Some(g[1].name), r.dir,
                                  None, h)
                  IN [b EXCEPT !.trace = r.trace \o b.trace]

(* --------------------- backup engine specification --------------------- *)

\* Names of the game whose saves are backed up and restored.
BackupNames == { <<"a">>, <<"a", "-", "b">>, <<"a", "-", "b", ".", "c">> }

\* Descriptions given to `gg backup --desc`.
Descs == { None, Some(<<"x">>) }

\* A game name that is not registered.
Unmanaged == <<"z">>

Root == "p1"

SaveLocation == "p2"

SaveStates ==
  [kind : {"dir"}, nodes : SampleTrees, data : {""}]
  \cup [kind : {"file"}, nodes : {{}}, data : SampleFileData]

NoHooks == [skip |-> TRUE, commit |-> "unset", push |-> "unset"]

Command(k, n, d, t, h, r) ==
  [kind |-> k, name |-> n, desc |-> d, target |-> t, h |-> h, result |-> r]

\* One game registered by `gg add`: root/gg-saves exists and is empty, and
\* save_location is a directory or a regular file.
InitBackup ==
  /\ \E n \in BackupNames :
       inner = << [name |-> n, root |-> Root, save_location |-> SaveLocation,
                   executable |-> None, run_commands |-> None] >>
  /\ last = Command("add", None, None, None, NoHooks, "ok")
  /\ saves = <<>>
  /\ ghost = <<>>
  /\ save \in SaveStates
  /\ trace = <<>>
  /\ proc = Proc("/", "/")
  /\ games_file = NoFile

\* The game rewrites its save data between two invocations of gg.
Play ==
  /\ \E s \in SaveStates : s.kind = save.kind /\ s # save /\ save' = s
  /\ last' = Command("play", None, None, None, NoHooks, "ok")
  /\ trace' = <<>>
  /\ UNCHANGED <<inner, saves, ghost, proc, games_file>>

\* `gg backup GAME [--desc D] [--skip-cloud]` for a managed game.
Backup ==
  \E d \in Descs, h \in HookInputs :
    \E b \in { backup(inner, saves, ghost, save, Some(inner[1].name), "/",
                      d, h) } :
       /\ Cardinality(DOMAIN b.saves) <= MaxBackups
       /\ saves' = b.saves
       /\ ghost' = b.ghost
       /\ trace' = b.trace
       /\ last' = Command("backup", Some(inner[1].name), d, None, h, b.result)
       /\ proc' = Proc("/", b.dir)
       /\ UNCHANGED <<inner, save, games_file>>

\* `gg backup --skip-cloud` without a name, run in the game's root.
BackupCurrentDir ==
  \E h \in { x \in HookInputs : x.skip } :
    \E b \in { backup(inner, saves, ghost, save, None, Root, None, h) } :
       /\ Cardinality(DOMAIN b.saves) <= MaxBackups
       /\ saves' = b.saves
       /\ ghost' = b.ghost
       /\ trace' = b.trace
       /\ last' = Command("backup", None, None, None, h, b.result)
       /\ proc' = Proc(Root, b.dir)
       /\ UNCHANGED <<inner, save, games_file>>

\* `gg backup` for a name that is not managed, or from a directory that is
\* no game's root or save_location.
BackupUnresolved ==
  \E a \in { [game |-> Some(Unmanaged), cwd |-> Root],
             [game |-> None, cwd |-> "/"] } :
    \E b \in { backup(inner, saves, ghost, save, a.game, a.cwd, None, NoHooks) } :
       /\ saves' = b.saves
       /\ ghost' = b.ghost
       /\ trace' = b.trace
       /\ last' = Command("backup", a.game, None, None, NoHooks, b.result)
       /\ proc' = Proc(a.cwd, b.dir)
       /\ UNCHANGED <<inner, save, games_file>>

\* Names given as BACKUP to `gg restore`: the files of gg-saves, the name of
\* the game's first backup whether it exists or not, and a name without '-'.
Targets == (DOMAIN saves) \cup { ArchiveName(inner[1].name, 0, None), <<"x">> }

\* How the cloud hooks exit when a process runs them a second time: as the
\* first time, or a hook that succeeded now fails (a commit with nothing left
\* to commit, a connection lost).
SecondRuns(h) ==
  {h} \cup { [h EXCEPT ![k] = "fail"] :
               k \in { x \in {"commit", "push"} :
                         /\ ~h.skip
                         /\ h[x] = "ok"
                         /\ h.commit # "fail" /\ h.push # "fail" } }

\* `gg restore GAME BACKUP [--skip-cloud]`.
Restore ==
  \E t \in Targets, h \in HookInputs :
   \E h2 \in SecondRuns(h) :
    \E r \in { restore(inner, saves, ghost, save, inner[1].name, t, "/",
                        h, h2) } :
       /\ Cardinality(DOMAIN r.saves) <= MaxBackups
       /\ saves' = r.saves
       /\ ghost' = r.ghost
       /\ save' = r.save
       /\ trace' = r.trace
       /\ last' = Command("restore", Some(inner[1].name), None, Some(t), h,
                          r.result)
       /\ proc' = Proc("/", r.dir)
       /\ UNCHANGED <<inner, games_file>>

\* `gg restore` for a name that is not managed.
RestoreUnresolved ==
  \E r \in { restore(inner, saves, ghost, save, Unmanaged,
                     ArchiveName(Unmanaged, 0, None), "/", NoHooks, NoHooks) } :
     /\ saves' = r.saves
     /\ ghost' = r.ghost
     /\ save' = r.save
     /\ trace' = r.trace
     /\ last' = Command("restore", Some(Unmanaged), None,
                        Some(ArchiveName(Unmanaged, 0, None)), NoHooks, r.result)
     /\ proc' = Proc("/", r.dir)
     /\ UNCHANGED <<inner, games_file>>

\* Outcomes of the run command: the run command lists of the configuration
\* and of the game are both empty, or how the shell exits.
RunInputs == {"unset", "ok", "fail"}

\* `gg run [GAME] [--skip-cloud]`: with the name of the managed game, or
\* without a name in the game's root.
Run ==
  \E a \in { [game |-> Some(inner[1].name), cwd |-> "/"],
              [game |-> None, cwd |-> Root] } :
   \E o \in RunInputs, h \in HookInputs :
    \E r \in { run(inner, saves, ghost, save, a.game, a.cwd, o, h) } :
       /\ Cardinality(DOMAIN r.saves) <= MaxBackups
       /\ saves' = r.saves
       /\ ghost' = r.ghost
       /\ trace' = r.trace
       /\ last' = Command("run", a.game, None, None, h, r.result)
       /\ proc' = Proc(a.cwd, r.dir)
       /\ UNCHANGED <<inner, save, games_file>>

\* `gg run` for a name that is not managed.
RunUnresolved ==
  \E r \in { run(inner, saves, ghost, save, Some(Unmanaged), "/", "ok",
                  NoHooks) } :
     /\ saves' = r.saves
     /\ ghost' = r.ghost
     /\ trace' = r.trace
     /\ last' = Command("run", Some(Unmanaged), None, None, NoHooks, r.result)
     /\ proc' = Proc("/", r.dir)
     /\ UNCHANGED <<inner, save, games_file>>

NextBackup ==
  \/ Play
  \/ Backup
  \/ BackupCurrentDir
  \/ BackupUnresolved
  \/ Restore
  \/ RestoreUnresolved

SpecBackup == InitBackup /\ [][NextBackup]_vars

NextRun ==
  \/ Play
  \/ Run
  \/ RunUnresolved

\* The registered game is played and run through gg.
SpecRun == InitBackup /\ [][NextRun]_vars

(* ------------------------- registry properties ------------------------- *)

\* C1: after any sequence of push calls from the empty registry the records
\* are in strictly ascending name order, so no name occurs twice.
SortedByName ==
  \A i \in 1..(Len(inner) - 1) :
    StrCmp(inner[i].name, inner[i + 1].name) = "Less"

\* A push has inserted into a registry that now holds several records.
SortedByNameWitness ==
  /\ last.kind = "push"
  /\ ~last.found
  /\ Len(inner) >= 2
  /\ last.idx < Len(inner)

\* C2: no two distinct records of the registry are equal under the OR rule
\* (same name, or same root, or same save_location).
NoDuplicateUnderOrIdentity ==
  \A i, j \in 1..Len(inner) : i # j => ~GameEq(inner[i], inner[j])

\* C3: a push whose name matches a stored record leaves that record with the
\* pushed root and save_location, and with the pushed executable and
\* run_commands where given and the stored ones where the push has None.
PushMergesProvidedFields ==
  [][ (last'.kind = "push" /\ last'.found) =>
        LET old == inner[last'.idx]
            new == inner'[last'.idx]
            g == last'.game
        IN /\ old.name = g.name
           /\ new.name = old.name
           /\ new.root = g.root
           /\ new.save_location = g.save_location
           /\ new.executable =
                IF g.executable # None THEN g.executable ELSE old.executable
           /\ new.run_commands =
                IF g.run_commands # None THEN g.run_commands
                ELSE old.run_commands ]_vars

\* A push with no executable and no run_commands has met a stored record of
\* its name that keeps both, under a new root.
PushMergesWitness ==
  /\ last.kind = "push"
  /\ last.found
  /\ last.game.executable = None
  /\ last.game.run_commands = None
  /\ inner[last.idx].executable # None
  /\ inner[last.idx].run_commands # None
  /\ inner[last.idx].root = last.game.root

\* C4: right after delete(n), get_by_name(n) reports that n does not exist.
DeleteThenGetNotFound ==
  last.kind = "delete" => get_by_name(inner, last.game.name) = None

\* A delete has removed a stored record and others remain.
DeleteThenGetWitness ==
  /\ last.kind = "delete"
  /\ last.found
  /\ Len(inner) >= 1

\* The registry reg holds a record of the name n.
Stored(reg, n) == \E i \in 1..Len(reg) : reg[i].name = n

\* C21: push and delete change at most one position of the registry.  A
\* push whose name is stored keeps the length, the name at the matched index
\* and every other record; a push of a new name only inserts the pushed
\* record; delete(n) removes exactly the record named n and returns it,
\* keeping the others in their order; delete of an absent name returns None
\* and keeps the registry.
PushDeleteFrame ==
  [][ IF last'.kind = "push"
      THEN IF Stored(inner, last'.game.name)
           THEN /\ Len(inner') = Len(inner)
                /\ \A i \in 1..Len(inner) :
                     \/ inner'[i] = inner[i]
                     \/ /\ inner[i].name = last'.game.name
                        /\ inner'[i].name = inner[i].name
                        /\ \A j \in 1..Len(inner) :
                             inner[j].name = last'.game.name => j = i
           ELSE /\ Len(inner') = Len(inner) + 1
                /\ \E k \in 1..Len(inner') :
                     /\ inner'[k] = last'.game
                     /\ \A i \in 1..Len(inner) :
                          inner[i] = inner'[IF i < k THEN i ELSE i + 1]
      ELSE IF last'.kind = "delete"
      THEN IF Stored(inner, last'.game.name)
           THEN /\ Len(inner') = Len(inner) - 1
                /\ \E k \in 1..Len(inner) :
                     /\ inner[k].name = last'.game.name
                     /\ deleted(inner, last'.game.name) = Some(inner[k])
                     /\ \A i \in 1..Len(inner') :
                          inner'[i] = inner[IF i < k THEN i ELSE i + 1]
           ELSE /\ deleted(inner, last'.game.name) = None
                /\ inner' = inner
      ELSE TRUE ]_vars

\* A push has merged into the first of two stored records and changed its
\* root, next to a record it left alone.
PushDeleteFrameWitness ==
  /\ last.kind = "push"
  /\ last.found
  /\ last.idx = 1
  /\ Len(inner) = 2
  /\ inner[1].root = last.game.root
  /\ inner[2].root # last.game.root

(* ---------------------- backup engine properties ----------------------- *)

\* The file name of the naming protocol: N-III[-D].tar.zst.
ProtocolName(n, i, d) ==
  n \o <<"-">> \o Idx3(i)
    \o (IF d # None THEN <<"-">> \o d[1] ELSE <<>>)
    \o <<".">> \o TarZst

Resolved(c) == c.result # "err:resolve"

HasEvent(t, e) == \E i \in 1..Len(t) : t[i].ev = e

\* C5: backup of game N with description D, called when gg-saves holds I
\* entries, creates the archive gg-saves/N-III[-D].tar.zst, also when N or D
\* contains a '.'.
BackupCreatesProtocolName ==
  [][ (last'.kind = "backup" /\ Resolved(last')) =>
        LET f == ProtocolName(inner[1].name, Cardinality(DOMAIN saves),
                              last'.desc)
        IN /\ trace'[1].ev = "create"
           /\ trace'[1].arg = f
           /\ f \in DOMAIN saves' ]_vars

\* C6: a restore that extracts into save_location has before that created
\* exactly one backup file, which is one more entry of gg-saves and holds the
\* save state as it was before the restore; it creates no second one.
RestoreSnapshotsOnceBefore ==
  [][ (last'.kind = "restore" /\ HasEvent(trace', "unpack")) =>
        /\ trace'[1].ev = "create"
        /\ trace'[1].ok
        /\ Cardinality(DOMAIN saves') = Cardinality(DOMAIN saves) + 1
        /\ saves'[trace'[1].arg] = TarEntries(save)
        /\ \A i \in 2..Len(trace') : trace'[i].ev # "create" ]_vars

\* C7: restore of an existing target the protocol names N-III[-D].tar.zst
\* does not panic and creates its snapshot under the description
\* replaced-with-III, whatever the game name N.
RestoreTagsTargetIndex ==
  [][ (last'.kind = "restore" /\ Resolved(last')
       /\ last'.target[1] \in DOMAIN saves) =>
        /\ last'.result # "panic"
        /\ \A i \in 0..MaxBackups, d \in Descs :
             last'.target[1] = ProtocolName(inner[1].name, i, d) =>
               /\ trace' # <<>>
               /\ trace'[1].ev = "create"
               /\ trace'[1].arg =
                    ArchiveName(inner[1].name, Cardinality(DOMAIN saves),
                                Some(ReplacedWith \o Idx3(i))) ]_vars

\* C8: restore of a target that is not in gg-saves fails before it does
\* anything: no snapshot, no hook, save_location untouched.
RestoreMissingTargetDoesNothing ==
  [][ (last'.kind = "restore" /\ Resolved(last')
       /\ last'.target[1] \notin DOMAIN saves) =>
        /\ last'.result # "ok"
        /\ trace' = <<>>
        /\ saves' = saves
        /\ save' = save ]_vars

IsHook(e, desc) == e.ev = "hook" /\ e.arg = <<desc>>

\* C10: in backup the cloud commit hook runs only after the archive is
\* finished and the cloud push hook only after a commit hook that succeeded
\* or was not configured; a failing commit hook means no push hook, the
\* commit hook's error as result and the archive still in gg-saves; with
\* skip_cloud no hook runs.
BackupHookOrder ==
  (last.kind = "backup" /\ Resolved(last)) =>
    /\ last.h.skip => ~HasEvent(trace, "hook")
    /\ \A i \in 1..Len(trace) :
         trace[i].ev = "hook" =>
           \E j \in 1..(i - 1) :
             trace[j].ev = "finish" /\ trace[j].arg \in DOMAIN saves
    /\ \A i \in 1..Len(trace) :
         IsHook(trace[i], "cloud push") =>
           \/ last.h.commit = "unset"
           \/ \E j \in 1..(i - 1) :
                IsHook(trace[j], "cloud commit") /\ trace[j].ok
    /\ (~last.h.skip /\ last.h.commit = "fail") =>
         /\ \A i \in 1..Len(trace) : ~IsHook(trace[i], "cloud push")
         /\ last.result = "err:cloud commit"
         /\ trace[1].ev = "create" /\ trace[1].arg \in DOMAIN saves
    /\ (~last.h.skip /\ last.h.commit # "unset") =>
         \E i \in 1..Len(trace) : IsHook(trace[i], "cloud commit")
    /\ (~last.h.skip /\ last.h.commit # "fail" /\ last.h.push # "unset") =>
         \E i \in 1..Len(trace) : IsHook(trace[i], "cloud push")

\* A backup whose commit hook failed: the archive is in gg-saves.
BackupHookOrderWitness ==
  /\ last.kind = "backup"
  /\ ~last.h.skip
  /\ last.h.commit = "fail"
  /\ last.result = "err:cloud commit"
  /\ Len(trace) = 3
  /\ IsHook(trace[3], "cloud commit")
  /\ trace[2].arg \in DOMAIN saves

(* ------------------------- hooks and run ------------------------------- *)

CloudErrors == {"err:cloud commit", "err:cloud push"}

\* C11: whenever a restore without skip_cloud fails because a cloud commit
\* or cloud push hook exits non-success, the target archive has already been
\* extracted into save_location.
RestoreHookFailureAfterExtraction ==
  (last.kind = "restore" /\ ~last.h.skip /\ last.result \in CloudErrors) =>
    HasEvent(trace, "unpack")

\* C12: a process that has called run_command with a command has, when the
\* call returns, the working directory it had before the call, on success
\* and on a hook error alike.
RunCommandRestoresDir ==
  (last.kind \in {"backup", "restore", "run"} /\ HasEvent(trace, "hook")) =>
    proc.cwd = proc.start

ArchiveNeverOverwritten ==
  [][ (last'.kind \in {"backup", "restore"}) =>
        /\ \A i \in 1..Len(trace') :
             trace'[i].ev = "create" =>
               trace'[i].ok /\ trace'[i].arg \notin DOMAIN saves
        /\ \A f \in DOMAIN saves :
             f \in DOMAIN saves' /\ saves'[f] = saves[f] ]_vars

\* C25: for a save_location that is a single regular file, restore of an
\* archive backup made of it succeeds (cloud hooks skipped) and leaves
\* save_location a regular file whose content is the archived content.
FileSaveRoundTrip ==
  [][ (/\ last'.kind = "restore"
       /\ last'.h.skip
       /\ save.kind = "file"
       /\ last'.target[1] \in DOMAIN saves
       /\ ghost[last'.target[1]].kind = "file") =>
        /\ last'.result = "ok"
        /\ save'.kind = "file"
        /\ save'.data = ghost[last'.target[1]].data ]_vars

(* ----------------------- configuration and commands -------------------- *)

\* struct Config, with Run and Backup flattened.
Config(shell, commands, init, commit, cpush) ==
  [shell |-> shell, run |-> commands, cloud_init_commands |-> init,
   cloud_commit_commands |-> commit, cloud_push_commands |-> cpush]

\* #[derive(Default)]: the empty shell and empty command lists.
DefaultConfig == Config(<<>>, <<>>, <<>>, <<>>, <<>>)

Sh == <<"s", "h">>

VarExe == <<"$", "E", "X", "E">>

VarGame == <<"$", "G", "A", "M", "E">>

\* Command lists of a configuration file.
CmdLists ==
  { <<>>, << <<"x">> >>, << VarGame >>, << VarExe, <<"x">> \o VarGame >> }

Configs ==
  { DefaultConfig,
    Config(Sh, <<>>, <<>>, <<>>, <<>>),
    Config(Sh, <<>>, <<>>, << <<"x">> >>, <<>>),
    Config(Sh, <<>>, <<>>, <<>>, << VarGame >>),
    Config(<<>>, <<>>, <<>>, << VarGame >>, << VarExe, <<"x">> \o VarGame >>),
    Config(Sh, <<>>, <<>>, << <<"x">> >>, << <<"x">> >>) }

\* Games the commands are built for.
CmdGames ==
  [name : { <<"a">>, <<"a", "b">> }, root : {"p1"}, save_location : {"p2"},
   executable : { None, Some(<<"e">>), Some(VarGame) },
   run_commands : {None}]

RECURSIVE Join(_, _)
\* [String]::join
Join(cmds, sep) ==
  IF cmds = <<>> THEN <<>>
  ELSE IF Len(cmds) = 1 THEN cmds[1]
  ELSE cmds[1] \o sep \o Join(Tail(cmds), sep)

RECURSIVE Replace(_, _, _)
\* str::replace: every non-overlapping match, found left to right.
Replace(s, pat, to) ==
  IF Len(s) < Len(pat) THEN s
  ELSE IF SubSeq(s, 1, Len(pat)) = pat
       THEN to \o Replace(SubSeq(s, Len(pat) + 1, Len(s)), pat, to)
       ELSE <<Head(s)>> \o Replace(Tail(s), pat, to)

\* Game::replace_vars
replace_vars(game, template) ==
  LET t == IF game.executable # None
           THEN Replace(template, VarExe,
                        <<"'">> \o game.executable[1] \o <<"'">>)
           ELSE template
  IN Replace(t, VarGame, game.name)

CommandsToProcessAlways(config, cmds, game) ==
  LET joined == Join(cmds, <<"&", "&">>)
  IN Some([program |-> config.shell,
           argv |-> << <<"-", "c">>,
                       IF game # None THEN replace_vars(game[1], joined)
                       ELSE joined >>])

\* Games::commands_to_process
commands_to_process(config, cmds, game) ==
  IF cmds = <<>> THEN None
  ELSE LET joined == Join(cmds, <<"&", "&">>)
       IN Some([program |-> config.shell,
                argv |-> << <<"-", "c">>,
                            IF game # None THEN replace_vars(game[1], joined)
                            ELSE joined >>])

\* Games::cloud_commit_command
cloud_commit_command(config, game) ==
  commands_to_process(config, config.cloud_commit_commands, Some(game))

\* Games::cloud_push_command
cloud_push_command(config, game) ==
  commands_to_process(config, config.cloud_push_commands, Some(game))

VarRun == <<"$", "R", "U", "N">>

RECURSIVE Find(_, _, _)
\* str::find: the position of the first match of pat in s at or after i,
\* 0 for None.
Find(s, pat, i) ==
  IF i + Len(pat) - 1 > Len(s) THEN 0
  ELSE IF SubSeq(s, i, i + Len(pat) - 1) = pat THEN i
  ELSE Find(s, pat, i + 1)

\* String::replace_range(i..i+n, with), i being a 1-based position.
ReplaceRange(s, i, n, with) ==
  SubSeq(s, 1, i - 1) \o with \o SubSeq(s, i + n, Len(s))

\* The body of the loop over the override of Games::run_command:
\* if let Some(i) = cmd.find("$RUN") { cmd.replace_range(.., &global_run) }
ExpandRun(cmd, global_run) ==
  LET i == Find(cmd, VarRun, 1)
  IN IF i # 0 THEN ReplaceRange(cmd, i, Len(VarRun), global_run) ELSE cmd

\* Games::run_command (games.rs): the command that runs the game.
games_run_command(config, game) ==
  LET cmds == IF game.run_commands # None
              THEN LET global_run == Join(config.run, <<"&", "&">>)
                   IN [i \in DOMAIN game.run_commands[1] |->
                         ExpandRun(game.run_commands[1][i], global_run)]
              ELSE config.run
  IN commands_to_process(config, cmds, Some(game))

\* Configurations with a global run command list.
RunConfigs ==
  { Config(Sh, r, <<>>, <<>>, <<>>) :
      r \in { <<>>, << <<"x">> >>, << <<"x">>, VarGame >> } }

\* Games with and without a run_commands override.
RunGames ==
  [name : { <<"a">> }, root : {"p1"}, save_location : {"p2"},
   executable : { None, Some(<<"e">>) },
   run_commands : { None, Some(<<>>), Some(<< VarRun >>),
                    Some(<< <<"y">>, VarRun \o <<";">> \o VarExe >>),
                    Some(<< VarRun \o <<";">> \o VarRun >>) }]

\* What run_command does with a command: nothing to run, or the exit of the
\* process it spawns.
Outcome(cmd, exit) == IF cmd = None THEN "unset" ELSE exit

Exits == {"ok", "fail"}

\* A call of commands_to_process.
CommandsToProcess ==
  \E config \in Configs, cmds \in CmdLists,
     game \in {None} \cup { Some(g) : g \in CmdGames } :
     /\ last' = [kind |-> "commands_to_process", config |-> config,
                 cmds |-> cmds, game |-> game,
                 result |-> commands_to_process(config, cmds, game)]
     /\ trace' = <<>>
     /\ UNCHANGED <<inner, saves, save, ghost, proc, games_file>>

\* A call of run_command with what commands_to_process returned, by a
\* process whose working directory is cur.
RunCommand ==
  \E config \in Configs, cmds \in CmdLists, g \in CmdGames, exit \in Exits,
     cur \in {"/", "p1"} :
    LET cmd == commands_to_process(config, cmds, Some(g))
        r == run_command(Outcome(cmd, exit), "run game", cur, g.root)
    IN /\ last' = [kind |-> "run_command", cmd |-> cmd, ok |-> r.ok]
       /\ trace' = r.trace
       /\ proc' = Proc(cur, r.dir)
       /\ UNCHANGED <<inner, saves, save, ghost, games_file>>

\* The cloud hooks of backup and restore under a configuration.
RunCloudHooks ==
  \E config \in Configs, g \in CmdGames, skip \in BOOLEAN,
     ec \in Exits, ep \in Exits :
    LET h == [skip |-> skip,
              commit |-> Outcome(cloud_commit_command(config, g), ec),
              push |-> Outcome(cloud_push_command(config, g), ep)]
        r == CloudHooks(h, "/", g.root)
    IN /\ last' = [kind |-> "hooks", config |-> config, h |-> h,
                   result |-> r.result]
       /\ trace' = r.trace
       /\ proc' = Proc("/", r.dir)
       /\ UNCHANGED <<inner, saves, save, ghost, games_file>>

\* A call of Games::run_command.
GamesRunCommand ==
  \E config \in RunConfigs, g \in RunGames :
     /\ last' = [kind |-> "games_run_command", config |-> config,
                 game |-> g, result |-> games_run_command(config, g)]
     /\ trace' = <<>>
     /\ UNCHANGED <<inner, saves, save, ghost, proc, games_file>>

NextCommands ==
  \/ CommandsToProcess
  \/ RunCommand
  \/ RunCloudHooks
  \/ GamesRunCommand

\* Commands are built from the configuration and run.
SpecCommands == Init /\ [][NextCommands]_vars

\* C13: commands_to_process returns None for an empty list, whatever the game
\* and the configuration; run_command without a command succeeds, spawns
\* nothing and leaves the working directory; so under the all-default
\* configuration the cloud hooks of backup and restore never fail.
EmptyCommandsNeverFail ==
  /\ (last.kind = "commands_to_process" /\ last.cmds = <<>>) =>
       last.result = None
  /\ (last.kind = "run_command" /\ last.cmd = None) =>
       last.ok /\ trace = <<>> /\ proc.cwd = proc.start
  /\ (last.kind = "hooks" /\ last.config = DefaultConfig) =>
       last.result = "ok" /\ trace = <<>> /\ proc.cwd = proc.start

\* run_command was given no command by a process started in the game's root
\* (it has returned success), and other calls built and ran a command.
EmptyCommandsNeverFailWitness ==
  /\ last.kind = "run_command"
  /\ last.cmd = None
  /\ last.ok
  /\ proc = Proc("p1", "p1")

RECURSIVE SubstituteOnce(_, _)
\* The template s with each $EXE and $GAME token, found left to right,
\* replaced by its value; the inserted text is not scanned again.
SubstituteOnce(game, s) ==
  IF s = <<>> THEN s
  ELSE IF /\ game.executable # None
          /\ Len(s) >= Len(VarExe)
          /\ SubSeq(s, 1, Len(VarExe)) = VarExe
       THEN <<"'">> \o game.executable[1] \o <<"'">>
            \o SubstituteOnce(game, SubSeq(s, Len(VarExe) + 1, Len(s)))
  ELSE IF Len(s) >= Len(VarGame) /\ SubSeq(s, 1, Len(VarGame)) = VarGame
       THEN game.name
            \o SubstituteOnce(game, SubSeq(s, Len(VarGame) + 1, Len(s)))
  ELSE <<Head(s)>> \o SubstituteOnce(game, Tail(s))

\* C22: for a non-empty template list and a record, commands_to_process
\* returns `shell -c S`, S being the templates joined with "&&" in which
\* every $EXE is the quoted executable (kept when there is none) and every
\* $GAME is the name, substituted in a single pass: the text inserted for one
\* variable is never expanded itself.
CommandsSubstituteOnce ==
  (last.kind = "commands_to_process" /\ last.cmds # <<>> /\ last.game # None)
    => last.result =
         Some([program |-> last.config.shell,
               argv |-> << <<"-", "c">>,
                           SubstituteOnce(last.game[1],
                                          Join(last.cmds, <<"&", "&">>)) >>])

\* C23: Games::run_command builds its command from the global run command
\* list when the game has no override; with an override, from the override
\* in which every $RUN of each command is replaced by the global run commands
\* joined with "&&", so that no $RUN is left in the command when the global
\* list holds none, and the global list is not appended.
RunOverrideExpandsEveryRun ==
  last.kind = "games_run_command" =>
    LET g == last.game
        global == last.config.run
        global_run == Join(global, <<"&", "&">>)
    IN IF g.run_commands = None
       THEN last.result = commands_to_process(last.config, global, Some(g))
       ELSE /\ last.result =
                 commands_to_process(
                   last.config,
                   [i \in DOMAIN g.run_commands[1] |->
                      Replace(g.run_commands[1][i], VarRun, global_run)],
                   Some(g))
            /\ (last.result # None /\ Find(global_run, VarRun, 1) = 0) =>
                 Find(last.result[1].argv[2], VarRun, 1) = 0

(* --------------------------- the games file ---------------------------- *)

\* A JSON token of the games file; a byte 0 is the token "0".
Tok(k, v) == [k |-> k, v |-> v]

Punct(k) == Tok(k, <<>>)

\* Serialize for Option<PathBuf> / Option<Vec<String>> / PathBuf / String.
SerStr(v) == << Tok("str", v) >>

SerPath(v) == << Tok("str", <<v>>) >>

RECURSIVE SerStrs(_)
SerStrs(l) == IF l = <<>> THEN <<>> ELSE SerStr(Head(l)) \o SerStrs(Tail(l))

\* #[derive(Serialize)] for Game: the five fields in declaration order.
SerGame(g) ==
  << Punct("{") >>
    \o SerStr(g.name) \o SerPath(g.root) \o SerPath(g.save_location)
    \o (IF g.executable = None THEN << Punct("null") >>
        ELSE SerPath(g.executable[1]))
    \o (IF g.run_commands = None THEN << Punct("null") >>
        ELSE << Punct("[") >> \o SerStrs(g.run_commands[1]) \o << Punct("]") >>)
    \o << Punct("}") >>

RECURSIVE SerGames(_)
SerGames(reg) ==
  IF reg = <<>> THEN <<>>
  ELSE IF Len(reg) = 1 THEN SerGame(reg[1])
  ELSE SerGame(reg[1]) \o << Punct(",") >> \o SerGames(Tail(reg))

\* serde_json::to_writer(&self.inner): the bytes written.
Serialize(reg) == << Punct("[") >> \o SerGames(reg) \o << Punct("]") >>

ParseFail == [ok |-> FALSE, val |-> <<>>, next |-> 0]

Parsed(v, n) == [ok |-> TRUE, val |-> v, next |-> n]

Kind(b, i) == IF i \in 1..Len(b) THEN b[i].k ELSE "eof"

RECURSIVE ParseStrs(_, _)
\* Deserialize for Vec<String>, after its '['.
ParseStrs(b, i) ==
  IF Kind(b, i) = "]" THEN Parsed(<<>>, i + 1)
  ELSE IF Kind(b, i) = "str"
       THEN LET r == ParseStrs(b, i + 1)
            IN IF r.ok THEN Parsed(<<b[i].v>> \o r.val, r.next) ELSE ParseFail
       ELSE ParseFail

\* #[derive(Deserialize)] for Game.
ParseGame(b, i) ==
  IF ~(/\ Kind(b, i) = "{"
       /\ Kind(b, i + 1) = "str" /\ Kind(b, i + 2) = "str"
       /\ Kind(b, i + 3) = "str" /\ Len(b[i + 2].v) = 1
       /\ Len(b[i + 3].v) = 1)
  THEN ParseFail
  ELSE LET exe == IF Kind(b, i + 4) = "null" THEN Parsed(None, i + 5)
                  ELSE IF Kind(b, i + 4) = "str" /\ Len(b[i + 4].v) = 1
                       THEN Parsed(Some(b[i + 4].v[1]), i + 5)
                       ELSE ParseFail
           cmds == IF Kind(b, i + 5) = "null" THEN Parsed(None, i + 6)
                   ELSE IF Kind(b, i + 5) = "["
                        THEN LET l == ParseStrs(b, i + 6)
                             IN IF l.ok THEN Parsed(Some(l.val), l.next)
                                ELSE ParseFail
                        ELSE ParseFail
       IN IF exe.ok /\ cmds.ok /\ Kind(b, cmds.next) = "}"
          THEN Parsed([name |-> b[i + 1].v, root |-> b[i + 2].v[1],
                       save_location |-> b[i + 3].v[1],
                       executable |-> exe.val, run_commands |-> cmds.val],
                      cmds.next + 1)
          ELSE ParseFail

RECURSIVE ParseGames(_, _)
\* Deserialize for Vec<Game>, at an element.
ParseGames(b, i) ==
  LET g == ParseGame(b, i)
  IN IF ~g.ok THEN ParseFail
     ELSE IF Kind(b, g.next) = "]" THEN Parsed(<<g.val>>, g.next + 1)
     ELSE IF Kind(b, g.next) = ","
          THEN LET r == ParseGames(b, g.next + 1)
               IN IF r.ok THEN Parsed(<<g.val>> \o r.val, r.next)
                  ELSE ParseFail
          ELSE ParseFail

\* serde_json::from_reader::<_, Vec<Game>>: the whole input is one array.
Deserialize(b) ==
  IF Kind(b, 1) # "[" THEN ParseFail
  ELSE LET r == IF Kind(b, 2) = "]" THEN Parsed(<<>>, 3) ELSE ParseGames(b, 2)
       IN IF r.ok /\ r.next = Len(b) + 1 THEN r ELSE ParseFail

\* File::set_len: the cursor stays where it is.
set_len(f, n) ==
  [f EXCEPT !.bytes = [i \in 1..n |-> IF i <= Len(f.bytes) THEN f.bytes[i]
                                       ELSE Punct("0")]]

\* Seek::rewind
rewind(f) == [f EXCEPT !.pos = 0]

\* Write::write_all at the cursor: a cursor past the end leaves a hole of
\* zero bytes.
write_all(f, data) ==
  LET end == f.pos + Len(data)
      n == IF end > Len(f.bytes) THEN end ELSE Len(f.bytes)
  IN [bytes |-> [i \in 1..n |->
                   IF i > f.pos /\ i <= end THEN data[i - f.pos]
                   ELSE IF i <= Len(f.bytes) THEN f.bytes[i]
                   ELSE Punct("0")],
      pos |-> end]

StoreNoRewind(f, reg) ==
  LET t == set_len(f, 0)
  IN IF reg = <<>> THEN t ELSE write_all(t, Serialize(reg))

\* Games::store: the games file afterwards.
store(f, reg) ==
  LET t == set_len(f, 0)
  IN IF reg = <<>> THEN t ELSE write_all(rewind(t), Serialize(reg))

(* ------------------------------ Games::load ---------------------------- *)

\* /etc/goodgame/config.json: absent, not readable, not JSON, or a JSON
\* object with the keys it has (None for a key it lacks).
ConfigFile(state, shell, commands, keys) ==
  [state |-> state, shell |-> shell, run |-> commands, backup |-> keys]

BackupKeys(init, commit, cpush) ==
  [init |-> init, commit |-> commit, push |-> cpush]

ConfigFiles ==
  { ConfigFile("missing", None, None, None),
    ConfigFile("unreadable", Some(Sh), Some(Some(<<>>)), None),
    ConfigFile("garbage", None, None, None),
    ConfigFile("json", None, Some(Some(<<>>)),
               Some(BackupKeys(None, Some(<< <<"x">> >>), None))),
    ConfigFile("json", Some(Sh), None,
               Some(BackupKeys(None, Some(<< <<"x">> >>), None))),
    ConfigFile("json", Some(Sh), Some(None),
               Some(BackupKeys(None, None, Some(<< <<"x">> >>)))),
    ConfigFile("json", Some(Sh), Some(Some(<< <<"x">> >>)), None),
    ConfigFile("json", Some(Sh), Some(Some(<<>>)),
               Some(BackupKeys(None, None, None))),
    ConfigFile("json", Some(Sh), Some(Some(<< <<"x">> >>)),
               Some(BackupKeys(None, Some(<< VarGame >>), None))) }

\* Option::unwrap_or_default for a Vec.
OrEmpty(o) == IF o = None THEN <<>> ELSE o[1]

ParseConfigLenient(f) ==
  IF f.state # "json" THEN [ok |-> FALSE, val |-> DefaultConfig]
  ELSE LET b == IF f.backup = None THEN BackupKeys(None, None, None)
                ELSE f.backup[1]
       IN [ok |-> TRUE,
           val |-> Config(OrEmpty(f.shell),
                          IF f.run = None THEN <<>> ELSE OrEmpty(f.run[1]),
                          OrEmpty(b.init), OrEmpty(b.commit), OrEmpty(b.push))]

\* File::open(..).and_then(serde_json::from_reader::<_, Config>): shell, run,
\* run.commands and backup are required, the keys of backup are not.
parse_config(f) ==
  IF f.state # "json" THEN [ok |-> FALSE, val |-> DefaultConfig]
  ELSE IF f.shell = None \/ f.run = None \/ f.backup = None
       THEN [ok |-> FALSE, val |-> DefaultConfig]
  ELSE IF f.run[1] = None THEN [ok |-> FALSE, val |-> DefaultConfig]
  ELSE [ok |-> TRUE,
        val |-> Config(f.shell[1], f.run[1][1], OrEmpty(f.backup[1].init),
                       OrEmpty(f.backup[1].commit), OrEmpty(f.backup[1].push))]

\* .unwrap_or_default()
load_config(f) ==
  LET r == parse_config(f) IN IF r.ok THEN r.val ELSE DefaultConfig

\* Whether XDG_DATA_HOME or HOME is set.
Envs == {"ok", "nodatadir"}

\* Games::load: the result, the registry, the configuration and the open
\* games file.
load(bytes, env, cfgfile) ==
  LET config == load_config(cfgfile)
      fail(e) == [result |-> e, inner |-> <<>>, config |-> config,
                  file |-> [bytes |-> bytes, pos |-> 0]]
  IN IF env # "ok" THEN fail("err:data dir")
     ELSE IF Len(bytes) = 0
     THEN [result |-> "ok", inner |-> <<>>, config |-> config,
           file |-> [bytes |-> bytes, pos |-> 0]]
     ELSE LET d == Deserialize(bytes)
          IN IF ~d.ok THEN fail("err:parse")
             ELSE [result |-> "ok", inner |-> d.val, config |-> config,
                   file |-> [bytes |-> bytes, pos |-> Len(bytes)]]

(* ----------------------- load/store specification ---------------------- *)

\* Records the open registry is mutated with.
StoreGames ==
  [name : Names, root : {"p1"}, save_location : {"p2"},
   executable : Executables, run_commands : RunCommands]

\* A registry is open: the last load succeeded.
Open == IF last.kind = "load" THEN last.result = "ok" ELSE TRUE

\* A process calls Games::load.
Load ==
  \E env \in Envs, cf \in ConfigFiles :
    \E r \in { load(games_file.bytes, env, cf) } :
       /\ inner' = r.inner
       /\ games_file' = r.file
       /\ last' = [kind |-> "load", env |-> env, cfgfile |-> cf,
                   config |-> r.config, result |-> r.result]
       /\ UNCHANGED <<saves, save, ghost, trace, proc>>

\* games.push(game) on the open registry.
StorePush ==
  /\ Open
  /\ \E game \in StoreGames :
       /\ SearchGame(inner, game).ok \/ Len(inner) < MaxGames
       /\ inner' = push(inner, game)
  /\ last' = [kind |-> "push", pos |-> games_file.pos]
  /\ UNCHANGED <<saves, save, ghost, trace, proc, games_file>>

\* games.delete(name) on the open registry.
StoreDelete ==
  /\ Open
  /\ \E name \in Names : inner' = delete(inner, name)
  /\ last' = [kind |-> "delete", pos |-> games_file.pos]
  /\ UNCHANGED <<saves, save, ghost, trace, proc, games_file>>

\* games.store() on the open registry.
Store ==
  /\ Open
  /\ games_file' = store(games_file, inner)
  /\ last' = [kind |-> "store", pos |-> games_file.pos]
  /\ UNCHANGED <<inner, saves, save, ghost, trace, proc>>

NextStore ==
  \/ Load
  \/ StorePush
  \/ StoreDelete
  \/ Store

InitStore ==
  /\ inner = <<>>
  /\ last = [kind |-> "load", env |-> "ok",
             cfgfile |-> ConfigFile("missing", None, None, None),
             config |-> DefaultConfig, result |-> "ok"]
  /\ saves = <<>>
  /\ save = {}
  /\ ghost = <<>>
  /\ trace = <<>>
  /\ proc = Proc("/", "/")
  /\ games_file = NoFile

\* Processes load the registry, change it and store it.
SpecStore == InitStore /\ [][NextStore]_vars

\* C14: after a store on an open registry, whatever loads, mutations and
\* stores came before, the games file holds exactly the serialized array of
\* the registry, without stale or padding bytes, and is empty exactly when
\* the registry is; a load of it yields the same records in the same order.
StoreWritesRegistry ==
  (last.kind = "store") =>
    /\ games_file.bytes = (IF inner = <<>> THEN <<>> ELSE Serialize(inner))
    /\ (Len(games_file.bytes) = 0) <=> (inner = <<>>)
    /\ \A cf \in ConfigFiles :
         LET l == load(games_file.bytes, "ok", cf)
         IN l.result = "ok" /\ l.inner = inner

\* A store of a registry of one record, by a handle whose cursor stood
\* behind the end of what is written now.
StoreWritesRegistryWitness ==
  /\ last.kind = "store"
  /\ Len(inner) = 1
  /\ last.pos > Len(games_file.bytes)

\* Whether a configuration file is one serde reads as a Config.
WellFormed(f) ==
  /\ f.state = "json"
  /\ f.shell # None
  /\ f.run # None /\ f.run # Some(None)
  /\ f.backup # None

\* C15: load never fails because of the configuration file; with a file
\* that is missing, unreadable, malformed or lacks a required field it goes
\* on with the all-default configuration: empty shell, empty run, cloud
\* init, cloud commit and cloud push lists.
LoadIgnoresConfigFailure ==
  (last.kind = "load") =>
    /\ (last.result = "ok") <=> (last.env = "ok")
    /\ ~WellFormed(last.cfgfile) =>
         /\ last.config = DefaultConfig
         /\ last.config.shell = <<>>
         /\ last.config.run = <<>>
         /\ last.config.cloud_init_commands = <<>>
         /\ last.config.cloud_commit_commands = <<>>
         /\ last.config.cloud_push_commands = <<>>

\* A load of a registry of two records succeeded with a configuration file
\* that has commit commands but lacks the shell.
LoadIgnoresConfigFailureWitness ==
  /\ last.kind = "load"
  /\ last.result = "ok"
  /\ Len(inner) = 2
  /\ last.cfgfile.state = "json"
  /\ last.cfgfile.shell = None
  /\ last.config = DefaultConfig

(* ------------------------- add, edit and remove ------------------------ *)

\* Path::canonicalize: "l1" is a symbolic link to p1, "nx" does not exist.
Canon(p) ==
  IF p = "nx" THEN None ELSE IF p = "l1" THEN Some("p1") ELSE Some(p)

\* Path::is_dir: "f1" is a regular file.
IsDir(p) == p \in {"p1", "p2", "p3", "/", "/tmp"}

\* try_get_save_location(&root): p1 holds a game of a known type, with its
\* saves in p2.
Detect(root) == IF root = "p1" THEN Some("p2") ELSE None

\* std::env::current_dir() of a process whose directory was removed.
Gone == "gone"

\* Option::or
Or(a, b) == IF a # None THEN a ELSE b

\* Game::merged_with
merged_with(g, o) ==
  [name |-> Or(o.name, Some(g.name))[1],
   root |-> Or(o.root, Some(g.root))[1],
   save_location |-> Or(o.save_location, Some(g.save_location))[1],
   executable |-> Or(o.executable, g.executable),
   run_commands |-> Or(o.run_commands, g.run_commands)]

\* The error of Games::try_get when it finds no game.
try_get_error(game, cwd) ==
  IF game # None THEN [kind |-> "does not exist", arg |-> game]
  ELSE IF cwd = Gone THEN [kind |-> "io", arg |-> None]
  ELSE [kind |-> "could not infer", arg |-> Some(<<cwd>>)]

\* What a command leaves: the registry in memory, the games file, the
\* effects in order, the result and the working directory.
Left(reg, f, t, r, d) ==
  [inner |-> reg, file |-> f, trace |-> t, result |-> r, dir |-> d,
   game |-> NoGame, editor |-> FALSE]

AddStoresBeforeInit(reg, f, a, cwd, e) ==
  LET root == Canon(a.root)
      original == get_by_name(reg, a.name)
      detect == a.save_location = None /\ original = None
      given == Or(a.save_location,
                  Or(IF original # None THEN Some(original[1].save_location)
                     ELSE None,
                     IF root # None THEN Detect(root[1]) ELSE None))
      dir == IF detect /\ root # None THEN root[1] ELSE cwd
      sav == IF given = None THEN None ELSE Canon(given[1])
  IN IF root = None THEN Left(reg, f, <<>>, "err:root", cwd)
     ELSE IF given = None THEN Left(reg, f, <<>>, "err:save location", dir)
     ELSE IF sav = None THEN Left(reg, f, <<>>, "err:save location", dir)
     ELSE IF ~IsDir(root[1]) THEN Left(reg, f, <<>>, "err:root not dir", dir)
     ELSE IF root[1] = sav[1] THEN Left(reg, f, <<>>, "err:same", dir)
     ELSE IF e.io = "err:symlink" THEN Left(reg, f, <<>>, e.io, dir)
     ELSE LET game == [name |-> a.name, root |-> root[1],
                       save_location |-> sav[1],
                       executable |-> IF original # None
                                      THEN original[1].executable ELSE None,
                       run_commands |-> None]
              t == << Event("symlink", <<root[1]>>, TRUE) >>
              h == IF e.init # "skip" /\ original = None
                   THEN run_command(e.init, "cloud init", dir, root[1])
                   ELSE run_command("unset", "cloud init", dir, root[1])
          IN IF e.io = "err:gg-saves"
             THEN [Left(reg, f, t, e.io, dir) EXCEPT !.game = game]
             ELSE IF ~h.ok
             THEN [Left(push(reg, game), store(f, push(reg, game)),
                        t \o h.trace, "err:cloud init", h.dir)
                     EXCEPT !.game = game]
             ELSE LET new == push(reg, game)
                  IN [Left(new, store(f, new), t \o h.trace, "ok", h.dir)
                        EXCEPT !.game = game]

\* add(game, root, save_location, skip_cloud, skip_cloud_init, ..): a the
\* arguments, e the outcome of the cloud init hook ("skip" for either skip
\* flag) and of the creation of gg-save-loc and gg-saves.
add(reg, f, a, cwd, e) ==
  LET root == Canon(a.root)
      original == get_by_name(reg, a.name)
      detect == a.save_location = None /\ original = None
      given == Or(a.save_location,
                  Or(IF original # None THEN Some(original[1].save_location)
                     ELSE None,
                     IF root # None THEN Detect(root[1]) ELSE None))
      dir == IF detect /\ root # None THEN root[1] ELSE cwd
      sav == IF given = None THEN None ELSE Canon(given[1])
  IN IF root = None THEN Left(reg, f, <<>>, "err:root", cwd)
     ELSE IF given = None THEN Left(reg, f, <<>>, "err:save location", dir)
     ELSE IF sav = None THEN Left(reg, f, <<>>, "err:save location", dir)
     ELSE IF ~IsDir(root[1]) THEN Left(reg, f, <<>>, "err:root not dir", dir)
     ELSE IF root[1] = sav[1] THEN Left(reg, f, <<>>, "err:same", dir)
     ELSE IF e.io = "err:symlink" THEN Left(reg, f, <<>>, e.io, dir)
     ELSE LET game == [name |-> a.name, root |-> root[1],
                       save_location |-> sav[1],
                       executable |-> IF original # None
                                      THEN original[1].executable ELSE None,
                       run_commands |-> None]
              t == << Event("symlink", <<root[1]>>, TRUE) >>
              h == IF e.init # "skip" /\ original = None
                   THEN run_command(e.init, "cloud init", dir, root[1])
                   ELSE run_command("unset", "cloud init", dir, root[1])
          IN IF e.io = "err:gg-saves"
             THEN [Left(reg, f, t, e.io, dir) EXCEPT !.game = game]
             ELSE IF ~h.ok
             THEN [Left(reg, f, t \o h.trace, "err:cloud init", h.dir)
                     EXCEPT !.game = game]
             ELSE LET new == push(reg, game)
                  IN [Left(new, store(f, new), t \o h.trace, "ok", h.dir)
                        EXCEPT !.game = game]

\* edit(name, root, save_location, executable, .., run_commands, game): o
\* the overrides, ed what the editor does (its exit and the record the
\* temporary file holds afterwards, None for one that does not parse).
\* `original != merged` is Game's PartialEq.
edit(reg, f, game, cwd, o, ed) ==
  LET g == try_get(reg, game, cwd)
  IN IF g = None THEN Left(reg, f, <<>>, "err:resolve", cwd)
     ELSE LET original == g[1]
              merged == merged_with(original, o)
          IN IF ~GameEq(original, merged)
             THEN LET new == push(reg, merged)
                  IN [Left(new, store(f, new), <<>>, "ok", cwd)
                        EXCEPT !.game = merged]
             ELSE LET h == run_command(ed.exit, "editing game", cwd, "/tmp")
                      left == [Left(reg, f, h.trace, "ok", h.dir)
                                 EXCEPT !.game = merged, !.editor = TRUE]
                  IN IF ~h.ok THEN [left EXCEPT !.result = "err:editing game"]
                     ELSE IF ed.game = None
                     THEN [left EXCEPT !.result = "err:parse"]
                     ELSE LET new == push(delete(reg, original.name),
                                          ed.game[1])
                          IN [left EXCEPT !.inner = new,
                                          !.file = store(f, new)]

\* remove(game)
remove(reg, f, name, cwd) ==
  IF deleted(reg, name) = None
  THEN Left(reg, f, <<>>, "err:not managed", cwd)
  ELSE LET new == delete(reg, name)
       IN Left(new, store(f, new), <<>>, "ok", cwd)

(* ---------------------- command line specification --------------------- *)

\* Arguments game, root and save_location of add.
AddArgs ==
  [name : Names, root : {"p1", "p2"},
   save_location : {None, Some("p1"), Some("p2")}]
  \cup [name : {<<"a">>}, root : {"l1", "nx", "f1"},
        save_location : {Some("p2")}]
  \cup [name : {<<"a">>}, root : {"p1"}, save_location : {Some("nx")}]

\* The cloud init hook ("skip": --skip-cloud or --skip-cloud-init) and the
\* creation of root/gg-save-loc and root/gg-saves.
AddEnvs(a) ==
  { [init |-> "skip", io |-> "ok"] }
  \cup IF a.root = "p1" /\ a.save_location = Some("p2")
       THEN { [init |-> "ok", io |-> "ok"], [init |-> "fail", io |-> "ok"],
              [init |-> "skip", io |-> "err:symlink"],
              [init |-> "skip", io |-> "err:gg-saves"] }
       ELSE {}

Overrides(n, r, sl, e) ==
  [name |-> n, root |-> r, save_location |-> sl, executable |-> e,
   run_commands |-> None]

NoOverrides == Overrides(None, None, None, None)

\* Override arguments of `gg edit`.
EditArgs ==
  { NoOverrides,
    Overrides(Some(<<"b">>), None, None, None),
    Overrides(None, Some("p2"), None, None),
    Overrides(None, None, Some("p1"), None),
    Overrides(None, None, None, Some("exe")),
    Overrides(Some(<<"b">>), Some("p2"), Some("p1"), None),
    Overrides(Some(<<"b">>), Some("p3"), Some("p3"), None) }

\* What the editor leaves in the temporary file showing record g: nothing
\* that parses, g itself, g renamed, g with root and save_location swapped.
Editors(g) ==
  { [exit |-> "fail", game |-> None], [exit |-> "ok", game |-> None],
    [exit |-> "ok", game |-> Some(g)],
    [exit |-> "ok", game |-> Some([g EXCEPT !.name = <<"a", "b">>])],
    [exit |-> "ok", game |-> Some([g EXCEPT !.root = g.save_location,
                                            !.save_location = g.root])] }

CliCommand(k, n, o, orig, c) ==
  [kind |-> k, name |-> n, o |-> o, original |-> orig, game |-> c.game,
   editor |-> c.editor, result |-> c.result]

\* The effects of a command on the registry, the games file and the process.
Leaves(c) ==
  /\ inner' = c.inner
  /\ games_file' = c.file
  /\ trace' = c.trace
  /\ UNCHANGED <<saves, save, ghost>>

InitCli ==
  /\ inner = <<>>
  /\ last = CliCommand("load", None, NoOverrides, NoGame,
                       Left(<<>>, NoFile, <<>>, "ok", "/"))
  /\ saves = <<>>
  /\ save = {}
  /\ ghost = <<>>
  /\ trace = <<>>
  /\ proc = Proc("/", "/")
  /\ games_file = NoFile

\* Games::load()? at the start of main, with a data directory and any
\* configuration file.
Loaded == load(games_file.bytes, "ok", ConfigFile("missing", None, None, None))

\* `gg add`.
Add ==
  \E l \in {Loaded} : \E a \in AddArgs : \E e \in AddEnvs(a) :
    \E c \in { add(l.inner, l.file, a, "/", e) } :
       /\ Len(c.inner) <= MaxGames
       /\ Leaves(c)
       /\ last' = CliCommand("add", Some(a.name), NoOverrides, NoGame, c)
       /\ proc' = Proc("/", c.dir)

\* `gg edit [GAME] [--name ..] [--root ..] [--save-location ..]`: with a
\* name, or without one in p1.
Edit ==
  \E l \in {Loaded} :
   \E a \in { [game |-> Some(n), cwd |-> "/"] : n \in Names }
              \cup { [game |-> None, cwd |-> "p1"] },
      o \in EditArgs :
    \E g \in { try_get(l.inner, a.game, a.cwd) } :
     \E ed \in Editors(IF g = None THEN NoGame ELSE g[1]) :
      \E c \in { edit(l.inner, l.file, a.game, a.cwd, o, ed) } :
        /\ Len(c.inner) <= MaxGames
        /\ Leaves(c)
        /\ last' = CliCommand("edit", a.game, o,
                              IF g = None THEN NoGame ELSE g[1], c)
        /\ proc' = Proc(a.cwd, c.dir)

\* `gg remove GAME`.
RemoveGame ==
  \E l \in {Loaded} : \E n \in Names :
    \E c \in { remove(l.inner, l.file, n, "/") } :
       /\ Leaves(c)
       /\ last' = CliCommand("remove", Some(n), NoOverrides, NoGame, c)
       /\ proc' = Proc("/", c.dir)

\* A call games.try_get(game) by a process whose working directory is cwd.
TryGet ==
  \E game \in {None} \cup { Some(n) : n \in Names },
     cwd \in {"/", "p1", "p2", Gone} :
    \E r \in { try_get(inner, game, cwd) } :
       /\ last' = [kind |-> "try_get", name |-> game, cwd |-> cwd,
                   result |-> r,
                   error |-> IF r = None THEN try_get_error(game, cwd)
                             ELSE [kind |-> "none", arg |-> None]]
       /\ trace' = <<>>
       /\ proc' = Proc(cwd, cwd)
       /\ UNCHANGED <<inner, games_file, saves, save, ghost>>

NextCli ==
  \/ Add
  \/ Edit
  \/ RemoveGame

\* Games are added, edited and removed.
SpecCli == InitCli /\ [][NextCli]_vars

\* Registries of up to MaxGames games with distinct names, sorted by name.
Registries ==
  LET G == [name : Names, root : {"p1"}, save_location : {"p2"},
            executable : {None}, run_commands : {None}]
           \cup [name : Names, root : {"p2"}, save_location : {"p1"},
                 executable : {None}, run_commands : {None}]
      S == UNION { [1..n -> G] : n \in 0..MaxGames }
  IN { r \in S : \A i \in 1..(Len(r) - 1) :
                   StrCmp(r[i].name, r[i + 1].name) = "Less" }

InitResolve ==
  /\ inner \in Registries
  /\ last = CliCommand("load", None, NoOverrides, NoGame,
                       Left(<<>>, NoFile, <<>>, "ok", "/"))
  /\ saves = <<>>
  /\ save = {}
  /\ ghost = <<>>
  /\ trace = <<>>
  /\ proc = Proc("/", "/")
  /\ games_file = NoFile

\* Games of a loaded registry are looked up.
SpecResolve == InitResolve /\ [][TryGet]_vars

(* ----------------------- command line properties ----------------------- *)

\* The records of the registry whose root or save_location is cwd.
AtDir(cwd) ==
  { i \in 1..Len(inner) :
      inner[i].root = cwd \/ inner[i].save_location = cwd }

\* try_get with a name is get_by_name, without fallback; without a name it
\* is a record at the working directory when there is one.
TryGetFinds ==
  /\ last.name # None => last.result = get_by_name(inner, last.name[1])
  /\ (last.name = None /\ AtDir(last.cwd) # {}) =>
       \E i \in AtDir(last.cwd) : last.result = Some(inner[i])
  /\ (last.name = None /\ AtDir(last.cwd) = {}) => last.result = None

CouldNotInfer(cwd) == [kind |-> "could not infer", arg |-> Some(<<cwd>>)]

\* C16: try_get with a name is exactly get_by_name, without fallback to
\* the working directory; without a name it is a record whose root or
\* save_location is the working directory if there is one, and otherwise
\* the error that the game could not be inferred, naming that directory;
\* so on an empty registry try_get(None) always fails with this error.
TryGetInfersOrNamesDir ==
  (last.kind = "try_get") =>
    /\ TryGetFinds
    /\ (last.name = None /\ AtDir(last.cwd) = {}) =>
         last.error = CouldNotInfer(last.cwd)

\* C16, amended: as above, but when no record is found without a name and
\* the working directory cannot be read, the error is the I/O error of
\* reading it and names no directory.
TryGetInfersOrIoError ==
  (last.kind = "try_get") =>
    /\ TryGetFinds
    /\ (last.name = None /\ AtDir(last.cwd) = {}) =>
         last.error = (IF last.cwd = Gone THEN [kind |-> "io", arg |-> None]
                       ELSE CouldNotInfer(last.cwd))

\* A name that is not managed was looked up in the root of a managed game:
\* no game is found.
TryGetInfersOrIoErrorWitness ==
  /\ last.kind = "try_get"
  /\ last.name # None
  /\ AtDir(last.cwd) # {}
  /\ last.result = None
  /\ last.error.kind = "does not exist"

\* C17: every record of the registry has root # save_location, in every
\* state reached by add, edit and remove from the empty registry.
RootDiffersFromSaveLocation ==
  \A i \in 1..Len(inner) : inner[i].root # inner[i].save_location

\* An override of edit that is provided with a value other than the stored
\* one.
Changes(o, g) ==
  \/ o.name # None /\ o.name # Some(g.name)
  \/ o.root # None /\ o.root # Some(g.root)
  \/ o.save_location # None /\ o.save_location # Some(g.save_location)
  \/ o.executable # None /\ o.executable # g.executable
  \/ o.run_commands # None /\ o.run_commands # g.run_commands

\* C18: edit opens the editor only when no override is provided; with an
\* override that changes the stored record it stores the merged record
\* without opening the editor.
EditOverridesSkipEditor ==
  (last.kind = "edit" /\ Resolved(last)) =>
    /\ last.editor => last.o = NoOverrides
    /\ Changes(last.o, last.original) =>
         /\ ~last.editor
         /\ last.result = "ok"
         /\ \E i \in 1..Len(inner) : inner[i] = last.game

\* C19: add fails with the duplicate error and leaves the registry in
\* memory and the games file as they were whenever the name, the root or
\* the save_location of the new game is that of a registered record.
AddRejectsDuplicates ==
  [][ (/\ last'.kind = "add"
       /\ last'.game # NoGame
       /\ \E i \in 1..Len(inner) : GameEq(inner[i], last'.game)) =>
        /\ last'.result = "err:duplicate"
        /\ inner' = inner
        /\ games_file'.bytes = games_file.bytes ]_vars

\* C26: an add, edit or remove that returns an error leaves the games file
\* byte for byte as it was when the command loaded it: remove of a name
\* that is not managed, add with root equal to save_location, with a root
\* that is no directory or with a failing cloud init hook, edit of a game
\* that cannot be resolved or of a temporary file that does not parse.
ErrorLeavesGamesFile ==
  [][ (last'.kind \in {"add", "edit", "remove"} /\ last'.result # "ok") =>
        games_file'.bytes = games_file.bytes ]_vars

\* The cloud init hook of an add of a new name has failed with a registry
\* of one record in the games file.
ErrorLeavesGamesFileWitness ==
  /\ last.kind = "add"
  /\ last.result = "err:cloud init"
  /\ Len(inner) = 1
  /\ inner[1].name # last.game.name
  /\ Deserialize(games_file.bytes).ok
  /\ Deserialize(games_file.bytes).val = inner

====
